---- MODULE Spec2Model ----
(***************************************************************************)
(* Order-processing pipeline: the create_order handler (idempotent         *)
(* intake), the process_order handler (change-stream consumer), the Orders *)
(* table with its stream, and the notification topic.                      *)
(*                                                                         *)
(* Handlers are modelled at the granularity of their calls to the storage  *)
(* table and the topic: each such call is one atomic step, and any number  *)
(* of invocations of either handler interleave between those calls.        *)
(***************************************************************************)
EXTENDS Integers, Sequences, FiniteSets, Bags, TLC

\* ------------------------------------------------------------------ bounds
MaxTime == 1        \* the clock runs over 0..MaxTime
MaxBatch == 2       \* longest batch of stream records handed to one invocation
MaxCalls == 2       \* valid create_order calls issued per orderId
MaxUses == 2        \* uses of the cached accessors per thread

\* --------------------------------------------------------------- constants
ttl_days == 7
SecondsPerDay == 86400
TicksPerSecond == 2     \* the clock is read in ticks, finer than a second
STREAM_RETRY_ATTEMPTS == 3

Orders == {"o1", "o2"}
Snacks == {"crisps", "nuts"}
Creators == {"c1", "c2"}        \* concurrent create_order invocations
Processors == {"p1", "p2"}      \* concurrent process_order invocations

NoneVal == "None"               \* Python's None, where a string is expected
NoSeq == 0                      \* a record that carries no SequenceNumber

VARIABLES
    table,      \* the Orders table: a function from the stored keys to items
    stream,     \* the table's change stream: the sequence of records written
    published,  \* the topic: the bag of messages published so far
    now,        \* the wall clock, in ticks since the epoch
    create,     \* per create_order invocation: pc, event, item, response
    proc,       \* per process_order invocation: pc, Records, position, result
    answers,    \* per orderId, the responses returned to valid requests, in order
    acked,      \* sequence numbers the delivery layer holds as handled
    called,     \* per create_order invocation: the latest request and what
                \* lines 35-62 answered to it (NoResponse: it went on to the write)
    attempts,   \* per sequence number, how often the delivery layer handed
                \* the record to an invocation
    dlq,        \* sequence numbers the delivery layer sent to the dead-letter queue
    handles     \* one process of process_order: the caches of its two accessors,
                \* what was constructed and handed out, and its threads

vars == <<table, stream, published, now, create, proc, answers, acked, called,
          attempts, dlq, handles>>

\* ------------------------------------------------------------ Python values
\* `not x` for a value that is None or a string
Falsy(v) == v = NoneVal \/ v = ""

\* a value of a request field, with its Python type; an int by its digits
PyStr(s) == [type |-> "str", v |-> s]

PyInt(digits) == [type |-> "int", v |-> digits]

PyNone == [type |-> "NoneType", v |-> ""]

\* bool(x)
Truthy(x) ==
    CASE x.type = "str" -> x.v # ""
      [] x.type = "int" -> x.v # "0"
      [] OTHER -> FALSE

\* isinstance(x, str)
IsStr(x) == x.type = "str"

\* ---------------------------------------------------------- storage: table
\* put_item(Item=item, ConditionExpression="attribute_not_exists(orderId)")
PutConditionNeverChecked(tbl, key) == TRUE

PutCondition(tbl, key) == key \notin DOMAIN tbl

PutItem(tbl, item) ==
    [k \in DOMAIN tbl \cup {item.orderId} |->
        IF k = item.orderId THEN item ELSE tbl[k]]

\* ConditionExpression="#status = :new" with :new = "NEW"; a key with no item
\* has no status attribute and fails the comparison
UpdateConditionNeverChecked(tbl, key) == TRUE

UpdateCondition(tbl, key) == key \in DOMAIN tbl /\ tbl[key].status = "NEW"

\* UpdateExpression="SET #status = :processed, processedAt = :timestamp";
\* UpdateItem creates the item when the key has none
UpdateExpressionStatusOnly(old, timestamp) ==
    [a \in DOMAIN old \cup {"status"} |->
        IF a = "status" THEN "PROCESSED" ELSE old[a]]

\* the update also stamps createdAt
UpdateExpressionStampsCreatedAt(old, timestamp) ==
    [a \in DOMAIN old \cup {"status", "processedAt"} |->
        CASE a = "status" -> "PROCESSED"
          [] a \in {"processedAt", "createdAt"} -> timestamp
          [] OTHER -> old[a]]

UpdateExpression(old, timestamp) ==
    [a \in DOMAIN old \cup {"status", "processedAt"} |->
        CASE a = "status" -> "PROCESSED"
          [] a = "processedAt" -> timestamp
          [] OTHER -> old[a]]

UpdateItem(tbl, key, timestamp) ==
    LET old == IF key \in DOMAIN tbl THEN tbl[key] ELSE [orderId |-> key]
    IN [k \in DOMAIN tbl \cup {key} |->
           IF k = key THEN UpdateExpression(old, timestamp) ELSE tbl[k]]

\* --------------------------------------------------------- storage: stream
\* stream=NEW_AND_OLD_IMAGES: every write appends a record with the new image
StreamRecord(eventName, item, n) ==
    [eventName |-> eventName,
     dynamodb |-> "dict",
     SequenceNumber |-> n,
     NewImage |-> "dict",
     orderId |-> item.orderId,
     status |-> item.status]

StreamAppend(s, eventName, item) ==
    Append(s, StreamRecord(eventName, item, Len(s) + 1))

\* ------------------------------------------------------------ create_order
\* line 67: int((now + timedelta(days=ttl_days)).timestamp()), the whole
\* seconds since the epoch of the instant ttl_days days after tick t
ExpiresAtCreation(t) == t \div TicksPerSecond

ExpiresAt(t) ==
    (t + ttl_days * SecondsPerDay * TicksPerSecond) \div TicksPerSecond

\* the item built from a valid request at instant t
OrderItem(order_id, snack_type, t) ==
    [orderId |-> order_id,
     snackType |-> snack_type,
     status |-> "NEW",
     createdAt |-> t,
     expiresAt |-> ExpiresAt(t)]

Created(order_id) ==
    [statusCode |-> 201, message |-> "Order created successfully",
     error |-> NoneVal, orderId |-> order_id, status |-> "NEW"]

AlreadyExists(order_id) ==
    [statusCode |-> 200, message |-> "Order already exists",
     error |-> NoneVal, orderId |-> order_id, status |-> NoneVal]

\* lines 115-120
InternalErrorAsExists ==
    [statusCode |-> 200, message |-> "Order already exists",
     error |-> NoneVal, orderId |-> NoneVal, status |-> NoneVal]

InternalError ==
    [statusCode |-> 500, message |-> NoneVal,
     error |-> "Internal server error", orderId |-> NoneVal, status |-> NoneVal]

\* lines 47-52 and 55-62: the validation failure of `field`
BadRequest(field) ==
    [statusCode |-> 400, message |-> NoneVal,
     error |-> IF field = "orderId"
               THEN "Missing or invalid orderId (must be a non-empty string)"
               ELSE "Missing or invalid snackType (must be a non-empty string)",
     orderId |-> NoneVal, status |-> NoneVal]

\* lines 110-114
InvalidJson ==
    [statusCode |-> 400, message |-> NoneVal,
     error |-> "Invalid JSON in request body",
     orderId |-> NoneVal, status |-> NoneVal]

\* no response yet: the handler goes on to the write
NoResponse ==
    [statusCode |-> 0, message |-> NoneVal, error |-> NoneVal,
     orderId |-> NoneVal, status |-> NoneVal]

NoItem == [orderId |-> NoneVal]

CreateIdle == [pc |-> "idle", item |-> NoItem, raced |-> FALSE]

\* valid calls for order_id answered or in flight
CallsFor(order_id) ==
    Len(answers[order_id])
    + Cardinality({c \in Creators :
                     create[c].pc = "put" /\ create[c].item.orderId = order_id})

\* lines 42-76: validate the request, read the clock, prepare the item;
\* `raced` notes whether the key had no item when the invocation began
CreateStart(c, event) ==
    /\ create[c].pc = "idle"
    /\ LET body == event
           order_id == body.orderId
           snack_type == body.snackType
       IN /\ ~Falsy(order_id)
          /\ ~Falsy(snack_type)
          /\ create' = [create EXCEPT ![c] =
                 [pc |-> "put",
                  item |-> OrderItem(order_id, snack_type, now),
                  raced |-> order_id \notin DOMAIN table]]
    /\ UNCHANGED <<table, stream, published, now, proc, answers, acked,
                   attempts, dlq, handles>>

\* An event of create_order: `body` tells whether event["body"] is a string;
\* `syntax` is what that string holds ("object", "array", "number", "string",
\* "null" or "malformed") and "object" for a direct event; orderId and snackType are
\* the fields of the object that is read.
\* line 38: json.loads(event["body"])
JsonLoads(event) ==
    CASE event.syntax = "malformed" -> "JSONDecodeError"
      [] event.syntax = "object" -> "dict"
      [] OTHER -> event.syntax

\* lines 42-62: the field at which validation fails, or "none"
Invalid(body) ==
    IF ~Truthy(body.orderId) \/ ~IsStr(body.orderId) THEN "orderId"
    ELSE IF ~Truthy(body.snackType) \/ ~IsStr(body.snackType) THEN "snackType"
    ELSE "none"

\* lines 35-62 and 110-120: the response decided before the write, or
\* NoResponse.  A decoded value that is no dict has no `get`: line 43 raises
\* AttributeError, which line 115 catches.
EntryFieldsFirst(event) ==
    IF Invalid(event) # "none" THEN BadRequest(Invalid(event))
    ELSE IF event.body = "str" /\ JsonLoads(event) = "JSONDecodeError"
    THEN InvalidJson
    ELSE IF event.body = "str" /\ JsonLoads(event) # "dict" THEN InternalError
    ELSE NoResponse

\* a string body is not decoded: the fields are read from the event
EntryBodyNotDecoded(event) ==
    IF event.body = "str" THEN BadRequest("orderId")
    ELSE IF Invalid(event) # "none" THEN BadRequest(Invalid(event))
    ELSE NoResponse

Entry(event) ==
    LET parsed == IF event.body = "str" THEN JsonLoads(event) ELSE "dict"
    IN IF parsed = "JSONDecodeError" THEN InvalidJson
       ELSE IF parsed # "dict" THEN InternalError
       ELSE IF Invalid(event) # "none" THEN BadRequest(Invalid(event))
       ELSE NoResponse

\* the body of a request that passed validation
PlainBody(event) == [orderId |-> event.orderId.v, snackType |-> event.snackType.v]

NoCall ==
    [request |-> [body |-> "absent", syntax |-> "object",
                  orderId |-> PyNone, snackType |-> PyNone],
     response |-> NoResponse]

\* lines 35-76 for any event: the handler answers at once, or prepares the
\* item and goes on to the write
CreateInvoke(c, event) ==
    /\ create[c].pc = "idle"
    /\ called' = [called EXCEPT ![c] =
                      [request |-> event, response |-> Entry(event)]]
    /\ IF Entry(event) = NoResponse
       THEN CreateStart(c, PlainBody(event))
       ELSE UNCHANGED <<table, stream, published, now, create, proc,
                        answers, acked, attempts, dlq, handles>>

\* a conflict is answered and the write tried again
AnswerAndRetry(c, response) ==
    /\ create' = [create EXCEPT ![c] =
                      IF response.statusCode = 200 THEN @ ELSE CreateIdle]
    /\ answers' = [answers EXCEPT ![create[c].item.orderId] =
                       Append(@, [response |-> response,
                                  raced |-> create[c].raced])]

\* the handler returns `response`
Answer(c, response) ==
    /\ create' = [create EXCEPT ![c] = CreateIdle]
    /\ answers' = [answers EXCEPT ![create[c].item.orderId] =
                       Append(@, [response |-> response,
                                  raced |-> create[c].raced])]

\* lines 80-93: the conditional write succeeds
CreatePutOk(c) ==
    /\ create[c].pc = "put"
    /\ PutCondition(table, create[c].item.orderId)
    /\ table' = PutItem(table, create[c].item)
    /\ stream' = StreamAppend(stream, "INSERT", create[c].item)
    /\ Answer(c, Created(create[c].item.orderId))
    /\ UNCHANGED <<published, now, proc, acked, attempts, dlq, handles, called>>

\* lines 94-105: ConditionalCheckFailedException
CreatePutExists(c) ==
    /\ create[c].pc = "put"
    /\ ~PutCondition(table, create[c].item.orderId)
    /\ Answer(c, AlreadyExists(create[c].item.orderId))
    /\ UNCHANGED <<table, stream, published, now, proc, acked,
                   attempts, dlq, handles, called>>

\* lines 106-120: any other error of the write
CreatePutFault(c) ==
    /\ create[c].pc = "put"
    /\ Answer(c, InternalError)
    /\ UNCHANGED <<table, stream, published, now, proc, acked,
                   attempts, dlq, handles, called>>

\* ----------------------------------------------------------- process_order
\* line 49: record.get("dynamodb", {}).get("SequenceNumber")
SequenceNumber(record) ==
    IF record.dynamodb = "dict" THEN record.SequenceNumber ELSE NoSeq

\* line 59: record.get("dynamodb", {}).get("NewImage")
NewImage(record) ==
    IF record.dynamodb = "dict" THEN record.NewImage ELSE "absent"

\* lines 49-75: what the handler does with a record before any storage call:
\*   "crash"      line 49 raises outside the try block (dynamodb is no dict)
\*   "skip"       one of the four `continue` branches
\*   "error"      the image cannot be read: an exception inside the try block
\*   "actionable" the conditional update is attempted
ClassifyAnyStatus(record) ==
    IF record.dynamodb = "bad" THEN "crash"
    ELSE IF record.eventName \notin {"INSERT", "MODIFY"} THEN "skip"
    ELSE IF NewImage(record) = "absent" THEN "skip"
    ELSE IF NewImage(record) = "bad" THEN "error"
    ELSE IF Falsy(record.orderId) THEN "skip"
    ELSE "actionable"

Classify(record) ==
    IF record.dynamodb = "bad" THEN "crash"
    ELSE IF record.eventName \notin {"INSERT", "MODIFY"} THEN "skip"
    ELSE IF NewImage(record) = "absent" THEN "skip"
    ELSE IF NewImage(record) = "bad" THEN "error"
    ELSE IF Falsy(record.orderId) THEN "skip"
    ELSE IF record.status # "NEW" THEN "skip"
    ELSE "actionable"

\* lines 97-100
Message(order_id) == [orderId |-> order_id, status |-> "PROCESSED"]

\* lines 117-121: the except block of one record
ReportFailureNever(failures, sequence_number) == failures

ReportFailure(failures, sequence_number) ==
    IF sequence_number # NoSeq
    THEN Append(failures, sequence_number)
    ELSE failures

ProcIdle ==
    [pc |-> "idle", Records |-> << >>, i |-> 1, processed_at |-> 0,
     batch_item_failures |-> << >>, outcome |-> << >>]

\* line 48: the record the loop is at
Current(p) == proc[p].Records[proc[p].i]

InLoop(p) == proc[p].pc = "loop" /\ proc[p].i <= Len(proc[p].Records)

\* the loop is over: line 124 is reached
Returning(p) == proc[p].pc = "loop" /\ proc[p].i > Len(proc[p].Records)

\* the record at hand is finished with `tag` (how its handling ended); the
\* loop goes to the next record
NextRecordUnlessRaised(pr, tag, failures) ==
    [pr EXCEPT !.pc = "loop",
               !.i = IF tag \in {"skip", "done", "conflict"}
                     THEN @ + 1 ELSE Len(pr.Records) + 1,
               !.outcome = Append(@, tag),
               !.batch_item_failures = failures]

\* the condition failure does not keep the entry from the publish
NextRecordPublishOnConflict(pr, tag, failures) ==
    IF tag = "conflict"
    THEN [pr EXCEPT !.pc = "publish"]
    ELSE [pr EXCEPT !.pc = "loop",
                    !.i = @ + 1,
                    !.outcome = Append(@, tag),
                    !.batch_item_failures = failures]

NextRecord(pr, tag, failures) ==
    [pr EXCEPT !.pc = "loop",
               !.i = @ + 1,
               !.outcome = Append(@, tag),
               !.batch_item_failures = failures]

\* the handler is invoked with event = {"Records": records}
Invoke(p, records) ==
    /\ proc[p].pc = "idle"
    /\ proc' = [proc EXCEPT ![p] = [ProcIdle EXCEPT !.pc = "loop",
                                                    !.Records = records]]
    /\ UNCHANGED <<table, stream, published, now, create, answers, called>>

\* line 49 raises: the invocation ends with an exception
ProcCrash(p) ==
    /\ InLoop(p)
    /\ Classify(Current(p)) = "crash"
    /\ proc' = [proc EXCEPT ![p].pc = "raised"]
    /\ UNCHANGED <<table, stream, published, now, create, answers, acked,
                   attempts, dlq, handles, called>>

\* lines 52-75: a `continue`
ProcSkip(p) ==
    /\ InLoop(p)
    /\ Classify(Current(p)) = "skip"
    /\ proc' = [proc EXCEPT ![p] =
           NextRecord(@, "skip", @.batch_item_failures)]
    /\ UNCHANGED <<table, stream, published, now, create, answers, acked,
                   attempts, dlq, handles, called>>

\* lines 65-66 raise inside the try block
ProcError(p) ==
    /\ InLoop(p)
    /\ Classify(Current(p)) = "error"
    /\ proc' = [proc EXCEPT ![p] =
           NextRecord(@, "image_error",
               ReportFailure(@.batch_item_failures, SequenceNumber(Current(p))))]
    /\ UNCHANGED <<table, stream, published, now, create, answers, acked,
                   attempts, dlq, handles, called>>

\* line 78: processed_at = datetime.now(timezone.utc)
ProcReadClock(p) ==
    /\ InLoop(p)
    /\ Classify(Current(p)) = "actionable"
    /\ proc' = [proc EXCEPT ![p].pc = "update", ![p].processed_at = now]
    /\ UNCHANGED <<table, stream, published, now, create, answers, acked,
                   attempts, dlq, handles, called>>

\* lines 81-94: the conditional update succeeds
ProcUpdateOk(p) ==
    /\ proc[p].pc = "update"
    /\ UpdateCondition(table, Current(p).orderId)
    /\ table' = UpdateItem(table, Current(p).orderId, proc[p].processed_at)
    /\ stream' = StreamAppend(stream, "MODIFY", table'[Current(p).orderId])
    /\ proc' = [proc EXCEPT ![p].pc = "publish"]
    /\ UNCHANGED <<published, now, create, answers, acked,
                   attempts, dlq, handles, called>>

\* lines 109-112: ConditionalCheckFailedException is swallowed
ProcUpdateConflict(p) ==
    /\ proc[p].pc = "update"
    /\ ~UpdateCondition(table, Current(p).orderId)
    /\ proc' = [proc EXCEPT ![p] =
           NextRecord(@, "conflict", @.batch_item_failures)]
    /\ UNCHANGED <<table, stream, published, now, create, answers, acked,
                   attempts, dlq, handles, called>>

\* lines 113-121: any other error of update_item; nothing is written
ProcUpdateFault(p) ==
    /\ proc[p].pc = "update"
    /\ proc' = [proc EXCEPT ![p] =
           NextRecord(@, "update_error",
               ReportFailure(@.batch_item_failures, SequenceNumber(Current(p))))]
    /\ UNCHANGED <<table, stream, published, now, create, answers, acked,
                   attempts, dlq, handles, called>>

\* lines 102-107: the notification is published
ProcPublishOk(p) ==
    /\ proc[p].pc = "publish"
    /\ published' = published (+) SetToBag({Message(Current(p).orderId)})
    /\ proc' = [proc EXCEPT ![p] =
           NextRecord(@, "done", @.batch_item_failures)]
    /\ UNCHANGED <<table, stream, now, create, answers, acked,
                   attempts, dlq, handles, called>>

\* lines 102-106 raise: the except blocks of lines 109-121; nothing is published
ProcPublishFault(p) ==
    /\ proc[p].pc = "publish"
    /\ proc' = [proc EXCEPT ![p] =
           NextRecord(@, "publish_error",
               ReportFailure(@.batch_item_failures, SequenceNumber(Current(p))))]
    /\ UNCHANGED <<table, stream, published, now, create, answers, acked,
                   attempts, dlq, handles, called>>

\* line 124: return {"batchItemFailures": batch_item_failures}; the state
\* before this step holds the event that was handled and the result returned
ProcReturn(p) ==
    /\ Returning(p)
    /\ proc' = [proc EXCEPT ![p] = ProcIdle]
    /\ UNCHANGED <<table, stream, published, now, create, answers, called>>

\* the exception of line 49 reaches the runtime
ProcRaised(p) ==
    /\ proc[p].pc = "raised"
    /\ proc' = [proc EXCEPT ![p] = ProcIdle]
    /\ UNCHANGED <<table, stream, published, now, create, answers, acked,
                   attempts, dlq, handles, called>>

\* the host ends the invocation (timeout) in the middle of a batch
ProcAbort(p) ==
    /\ proc[p].pc \in {"loop", "update", "publish"}
    /\ proc' = [proc EXCEPT ![p] = ProcIdle]
    /\ UNCHANGED <<table, stream, published, now, create, answers, acked,
                   attempts, dlq, handles, called>>

Tick ==
    /\ now < MaxTime
    /\ now' = now + 1
    /\ UNCHANGED <<table, stream, published, create, proc, answers, acked,
                   attempts, dlq, handles, called>>

\* ----------------------------------------------------------- cached handles
\* _get_table and _get_sns_client are wrapped in functools.lru_cache
\* (maxsize=1, no arguments: one slot each).  The wrapper looks the slot up;
\* on a miss it calls the wrapped function, which constructs the handle, and
\* afterwards stores the result unless the slot was filled in the meantime;
\* either way the caller gets what its own call constructed.  The wrapper
\* holds no lock across the call of the wrapped function.
Accessors == {"_get_table", "_get_sns_client"}

Threads == {"t1", "t2"}         \* threads of one process using the accessors

NoHandle == 0                   \* an empty slot; handles are numbered from 1

ThreadIdle == [pc |-> "idle", f |-> "", result |-> NoHandle, uses |-> 0]

NoHandles ==
    [cache    |-> [f \in Accessors |-> NoHandle],
     built    |-> [f \in Accessors |-> 0],
     returned |-> [f \in Accessors |-> {}],
     thread   |-> [t \in Threads |-> ThreadIdle]]

\* thread t calls accessor f and the slot is filled: the cached handle
CacheHit(t, f) ==
    /\ handles.thread[t].pc = "idle"
    /\ handles.thread[t].uses < MaxUses
    /\ handles.cache[f] # NoHandle
    /\ handles' = [handles EXCEPT
           !.returned[f] = @ \cup {handles.cache[f]},
           !.thread[t].uses = @ + 1]
    /\ UNCHANGED <<table, stream, published, now, create, proc, answers,
                   acked, called, attempts, dlq>>

\* thread t calls accessor f and the slot is empty: the wrapped function is
\* called
CacheMiss(t, f) ==
    /\ handles.thread[t].pc = "idle"
    /\ handles.thread[t].uses < MaxUses
    /\ handles.cache[f] = NoHandle
    /\ handles' = [handles EXCEPT
           !.thread[t].pc = "constructing",
           !.thread[t].f = f]
    /\ UNCHANGED <<table, stream, published, now, create, proc, answers,
                   acked, called, attempts, dlq>>

\* the wrapped function constructs a handle (boto3.resource(...).Table(...),
\* boto3.client("sns"))
Construct(t) ==
    /\ handles.thread[t].pc = "constructing"
    /\ LET f == handles.thread[t].f
       IN handles' = [handles EXCEPT
              !.built[f] = @ + 1,
              !.thread[t].pc = "storing",
              !.thread[t].result = handles.built[f] + 1]
    /\ UNCHANGED <<table, stream, published, now, create, proc, answers,
                   acked, called, attempts, dlq>>

\* back in the wrapper: the result is stored unless the slot was filled
\* during the call, and returned
CacheStore(t) ==
    /\ handles.thread[t].pc = "storing"
    /\ LET f == handles.thread[t].f
           result == handles.thread[t].result
       IN handles' = [handles EXCEPT
              !.cache[f] = IF @ = NoHandle THEN result ELSE @,
              !.returned[f] = @ \cup {result},
              !.thread[t] = [ThreadIdle EXCEPT
                                !.uses = handles.thread[t].uses + 1]]
    /\ UNCHANGED <<table, stream, published, now, create, proc, answers,
                   acked, called, attempts, dlq>>

\* ------------------------------------------------------------ environment
\* direct requests {orderId, snackType}
Requests(orders, snacks) == [orderId : orders, snackType : snacks]

\* the events of 1 to n records drawn from `pool`
Events(pool, n) == UNION {[1..k -> pool] : k \in 1..n}

\* the records the stream holds
StreamRecords == {stream[k] : k \in 1..Len(stream)}

Init ==
    /\ table = << >>
    /\ stream = << >>
    /\ published = EmptyBag
    /\ now = 0
    /\ create = [c \in Creators |-> CreateIdle]
    /\ proc = [p \in Processors |-> ProcIdle]
    /\ answers = [o \in Orders |-> << >>]
    /\ acked = {}
    /\ called = [c \in Creators |-> NoCall]
    /\ attempts = << >>
    /\ dlq = {}
    /\ handles = NoHandles

\* Delivery layer, unconstrained: any records of the stream are handed to any
\* idle invocation, any number of times and in any order (at-least-once,
\* duplicates, overlapping events)
Deliver(p, records) ==
    Invoke(p, records) /\ UNCHANGED <<acked, attempts, dlq, handles>>

Return(p) == ProcReturn(p) /\ UNCHANGED <<acked, attempts, dlq, handles>>

\* a call with a valid direct request, its entry not recorded
CreateValid(c, event) == CreateStart(c, event) /\ UNCHANGED called

\* fewer than n valid calls were made for the orderId of `event`
Budget(event, n) == CallsFor(event.orderId) < n

\* Spec: concurrent intake.  Two create_order invocations race on one orderId
\* while two stream consumers handle the records of the stream, one record
\* per event.
RaceOrders == {"o1"}

Next ==
    \/ \E c \in Creators, event \in Requests(RaceOrders, Snacks) :
           Budget(event, MaxCalls) /\ CreateValid(c, event)
    \/ \E c \in Creators : CreatePutOk(c)
    \/ \E c \in Creators : CreatePutExists(c)
    \/ \E c \in Creators : CreatePutFault(c)
    \/ \E p \in Processors, records \in Events(StreamRecords, 1) :
           Deliver(p, records)
    \/ \E p \in Processors : ProcSkip(p)
    \/ \E p \in Processors : ProcReadClock(p)
    \/ \E p \in Processors : ProcUpdateOk(p)
    \/ \E p \in Processors : ProcUpdateConflict(p)
    \/ \E p \in Processors : ProcUpdateFault(p)
    \/ \E p \in Processors : ProcPublishOk(p)
    \/ \E p \in Processors : ProcPublishFault(p)
    \/ \E p \in Processors : Return(p)
    \/ \E p \in Processors : ProcAbort(p)
    \/ Tick

Spec == Init /\ [][Next]_vars

\* SpecStream: concurrent stream consumers.  Orders are created by one intake
\* invocation at a time, once per orderId; two process_order invocations
\* handle overlapping events of up to MaxBatch records.
NextStream ==
    \/ \E event \in Requests(RaceOrders, {"crisps"}) :
           Budget(event, 1) /\ CreateValid("c1", event)
    \/ CreatePutOk("c1")
    \/ \E p \in Processors, records \in Events(StreamRecords, MaxBatch) :
           Deliver(p, records)
    \/ \E p \in Processors : ProcSkip(p)
    \/ \E p \in Processors : ProcReadClock(p)
    \/ \E p \in Processors : ProcUpdateOk(p)
    \/ \E p \in Processors : ProcUpdateConflict(p)
    \/ \E p \in Processors : ProcUpdateFault(p)
    \/ \E p \in Processors : ProcPublishOk(p)
    \/ \E p \in Processors : ProcPublishFault(p)
    \/ \E p \in Processors : Return(p)
    \/ \E p \in Processors : ProcAbort(p)
    \/ Tick

SpecStream == Init /\ [][NextStream]_vars

\* SpecBatch: one stream consumer handling events of up to MaxBatch records
\* of every shape, over two orders created one call at a time.
Rec(eventName, dynamodb, sequence_number, new_image, order_id, status) ==
    [eventName |-> eventName,
     dynamodb |-> dynamodb,
     SequenceNumber |-> sequence_number,
     NewImage |-> new_image,
     orderId |-> order_id,
     status |-> status]

\* records as the stream writes them, and records that lack a part
ShapedRecords ==
    { Rec("INSERT", "dict", 11, "dict", "o1", "NEW"),
      Rec("MODIFY", "dict", 12, "dict", "o2", "NEW"),
      Rec("INSERT", "dict", NoSeq, "dict", "o2", "NEW"),
      Rec("MODIFY", "dict", 13, "dict", "o1", "PROCESSED"),
      Rec("REMOVE", "dict", 14, "absent", NoneVal, NoneVal),
      Rec("INSERT", "dict", 15, "dict", NoneVal, "NEW"),
      Rec("INSERT", "dict", 16, "bad", NoneVal, NoneVal),
      Rec("INSERT", "dict", NoSeq, "bad", NoneVal, NoneVal),
      Rec("INSERT", "bad", NoSeq, "absent", NoneVal, NoneVal),
      Rec("REMOVE", "dict", 17, "dict", "o2", "NEW"),
      Rec("REMOVE", "bad", NoSeq, "absent", NoneVal, NoneVal) }

\* the shaped records that can be delivered: a record whose image has
\* status NEW was written for an item of the table
Written ==
    {r \in ShapedRecords :
        Classify(r) = "actionable" => r.orderId \in DOMAIN table}

NextBatch ==
    \/ \E event \in Requests(Orders, {"crisps"}) :
           Budget(event, 1) /\ CreateValid("c1", event)
    \/ CreatePutOk("c1")
    \/ \E records \in Events(Written, MaxBatch) : Deliver("p1", records)
    \/ Deliver("p1", << >>)
    \/ ProcCrash("p1")
    \/ ProcRaised("p1")
    \/ ProcSkip("p1")
    \/ ProcError("p1")
    \/ ProcReadClock("p1")
    \/ ProcUpdateOk("p1")
    \/ ProcUpdateConflict("p1")
    \/ ProcUpdateFault("p1")
    \/ ProcPublishOk("p1")
    \/ ProcPublishFault("p1")
    \/ Return("p1")

SpecBatch == Init /\ [][NextBatch]_vars

\* SpecAbort: one stream consumer whose invocations the host may end at any
\* point; storage and topic answer every call.  Events of up to MaxBatch
\* records of the stream are delivered again and again, over two orders.
NextAbort ==
    \/ \E event \in Requests(Orders, {"crisps"}) :
           Budget(event, 1) /\ CreateValid("c1", event)
    \/ CreatePutOk("c1")
    \/ \E records \in Events(StreamRecords, MaxBatch) : Deliver("p1", records)
    \/ ProcSkip("p1")
    \/ ProcReadClock("p1")
    \/ ProcUpdateOk("p1")
    \/ ProcUpdateConflict("p1")
    \/ ProcPublishOk("p1")
    \/ Return("p1")
    \/ ProcAbort("p1")
    \/ Tick

SpecAbort == Init /\ [][NextAbort]_vars

\* SpecIntake: one create_order invocation at a time, with events of every
\* form: direct or with a string body, well-formed or not, fields of every
\* type.
OrderIdValues == {PyStr("o1"), PyStr(""), PyNone, PyInt("7"), PyInt("0")}

SnackTypeValues == {PyStr("crisps"), PyStr("nuts"), PyStr(""), PyNone, PyInt("7")}

IntakeEvents ==
    [body : {"absent"}, syntax : {"object"},
     orderId : OrderIdValues, snackType : SnackTypeValues]
    \cup [body : {"str"}, syntax : {"object", "malformed"},
          orderId : OrderIdValues, snackType : SnackTypeValues]
    \cup [body : {"str"}, syntax : {"array", "number", "string", "null"},
          orderId : {PyNone}, snackType : {PyNone}]

NextIntake ==
    \/ \E event \in IntakeEvents :
           /\ Entry(event) = NoResponse => Budget(PlainBody(event), MaxCalls)
           /\ CreateInvoke("c1", event)
    \/ CreatePutOk("c1")
    \/ CreatePutExists("c1")
    \/ CreatePutFault("c1")
    \/ Tick

SpecIntake == Init /\ [][NextIntake]_vars

\* SpecLifecycle: entries that outlive their record.  The stream keeps its
\* records for a day and the table drops items by expiresAt, so an entry
\* with status NEW may be handed over for a key that holds no item; here
\* such entries are delivered from the start, next to the stream's own.
\* One orderId is created, by calls made one at a time; the other never is.
Replayed == {r \in ShapedRecords : Classify(r) = "actionable"}

NextLifecycle ==
    \/ \E event \in Requests(RaceOrders, {"crisps"}) :
           Budget(event, MaxCalls) /\ CreateValid("c1", event)
    \/ CreatePutOk("c1")
    \/ CreatePutExists("c1")
    \/ CreatePutFault("c1")
    \/ \E records \in Events(Replayed \cup StreamRecords, MaxBatch) :
           Deliver("p1", records)
    \/ ProcSkip("p1")
    \/ ProcReadClock("p1")
    \/ ProcUpdateOk("p1")
    \/ ProcUpdateConflict("p1")
    \/ ProcUpdateFault("p1")
    \/ ProcPublishOk("p1")
    \/ ProcPublishFault("p1")
    \/ Return("p1")
    \/ ProcAbort("p1")

SpecLifecycle == Init /\ [][NextLifecycle]_vars

\* SpecFair: the delivery layer as the event source mapping configures it
\* (report_batch_item_failures): a record of the stream is pending until an
\* invocation that was handed it returns without listing it, and a pending
\* record keeps being delivered.  Storage and topic errors are transient.

\* the sequence numbers of `records` that `failures` does not list
Handled(records, failures) ==
    {records[k].SequenceNumber : k \in 1..Len(records)}
        \ {failures[k] : k \in 1..Len(failures)}

Pending == {r \in StreamRecords : r.SequenceNumber \notin acked}

\* the result of invocation p is taken: what it does not list is handled
Checkpoint(p) ==
    /\ ProcReturn(p)
    /\ acked' = acked \cup Handled(proc[p].Records, proc[p].batch_item_failures)
    /\ UNCHANGED <<attempts, dlq, handles>>

\* the steps of invocation p that handle a record of orderId o
ReadClockFor(p, o) ==
    /\ InLoop(p)
    /\ Current(p).orderId = o
    /\ ProcReadClock(p)

UpdateAnsweredFor(p, o) ==
    /\ proc[p].pc = "update"
    /\ Current(p).orderId = o
    /\ (ProcUpdateOk(p) \/ ProcUpdateConflict(p))

PublishOkFor(p, o) ==
    /\ proc[p].pc = "publish"
    /\ Current(p).orderId = o
    /\ ProcPublishOk(p)

DeliverPendingFor(p, o) ==
    \E r \in Pending : r.orderId = o /\ Deliver(p, <<r>>)

NextFair ==
    \/ \E event \in Requests(RaceOrders, {"crisps"}) :
           Budget(event, 1) /\ CreateValid("c1", event)
    \/ CreatePutOk("c1")
    \/ \E p \in Processors, records \in Events(StreamRecords, 1) :
           Deliver(p, records)
    \/ \E p \in Processors : ProcSkip(p)
    \/ \E p \in Processors : ProcReadClock(p)
    \/ \E p \in Processors : ProcUpdateOk(p)
    \/ \E p \in Processors : ProcUpdateConflict(p)
    \/ \E p \in Processors : ProcUpdateFault(p)
    \/ \E p \in Processors : ProcPublishOk(p)
    \/ \E p \in Processors : ProcPublishFault(p)
    \/ \E p \in Processors : Checkpoint(p)
    \/ \E p \in Processors : ProcAbort(p)

\* every invocation goes on (or is ended by the host); a pending record is
\* delivered again and again; a record handed over again and again is
\* eventually read; update_item and publish, called again and again for an
\* order, eventually answer without a transient error
Fairness ==
    /\ WF_vars(CreatePutOk("c1"))
    /\ \A p \in Processors :
          WF_vars(ProcSkip(p) \/ ProcReadClock(p) \/ ProcUpdateOk(p)
                  \/ ProcUpdateConflict(p) \/ ProcUpdateFault(p)
                  \/ ProcPublishOk(p) \/ ProcPublishFault(p)
                  \/ Checkpoint(p) \/ ProcAbort(p))
    /\ \A o \in Orders :
          /\ SF_vars(\E p \in Processors : DeliverPendingFor(p, o))
          /\ SF_vars(\E p \in Processors : ReadClockFor(p, o))
          /\ SF_vars(\E p \in Processors : UpdateAnsweredFor(p, o))
          /\ SF_vars(\E p \in Processors : PublishOkFor(p, o))

SpecFair == Init /\ [][NextFair]_vars /\ Fairness

\* SpecRetry: the delivery layer of SpecFair when the only error is a
\* transient error of update_item: the topic answers every publish and the
\* host ends no invocation.
NextRetry ==
    \/ \E event \in Requests(RaceOrders, {"crisps"}) :
           Budget(event, 1) /\ CreateValid("c1", event)
    \/ CreatePutOk("c1")
    \/ \E p \in Processors, records \in Events(StreamRecords, 1) :
           Deliver(p, records)
    \/ \E p \in Processors : ProcSkip(p)
    \/ \E p \in Processors : ProcReadClock(p)
    \/ \E p \in Processors : ProcUpdateOk(p)
    \/ \E p \in Processors : ProcUpdateConflict(p)
    \/ \E p \in Processors : ProcUpdateFault(p)
    \/ \E p \in Processors : ProcPublishOk(p)
    \/ \E p \in Processors : Checkpoint(p)

FairnessRetry ==
    /\ WF_vars(CreatePutOk("c1"))
    /\ \A p \in Processors :
          WF_vars(ProcSkip(p) \/ ProcReadClock(p) \/ ProcUpdateOk(p)
                  \/ ProcUpdateConflict(p) \/ ProcUpdateFault(p)
                  \/ ProcPublishOk(p) \/ Checkpoint(p))
    /\ \A o \in Orders :
          /\ SF_vars(\E p \in Processors : DeliverPendingFor(p, o))
          /\ SF_vars(\E p \in Processors : UpdateAnsweredFor(p, o))

SpecRetry == Init /\ [][NextRetry]_vars /\ FairnessRetry

\* SpecMapping: the event source mapping with its retry limit and its
\* dead-letter queue (retry_attempts, on_failure).  The records of the
\* stream are handed over in their order, one record per event, to one
\* invocation at a time; a record listed in the result is handed over again,
\* until the retries are used up and it goes to the dead-letter queue; the
\* next record follows once the one before is handled or dead-lettered.
\* Storage and topic may fail any call, always.
Attempts(n) == IF n \in DOMAIN attempts THEN attempts[n] ELSE 0

\* the sequence numbers the mapping has not moved past
Unsettled == {n \in 1..Len(stream) : n \notin acked \cup dlq}

\* the record the mapping is at
AtHead(n) == n \in Unsettled /\ \A m \in Unsettled : n <= m

\* the first attempt and the retries of record n are used up
ExhaustedNever(n) == FALSE

Exhausted(n) == Attempts(n) >= 1 + STREAM_RETRY_ATTEMPTS

MapDeliver(p) ==
    \E n \in Unsettled :
        /\ AtHead(n)
        /\ Invoke(p, <<stream[n]>>)
        /\ attempts' = [m \in DOMAIN attempts \cup {n} |->
                            IF m = n THEN Attempts(n) + 1 ELSE attempts[m]]
        /\ UNCHANGED <<acked, dlq, handles>>

\* the result of invocation p is taken
MapCheckpoint(p) ==
    /\ ProcReturn(p)
    /\ LET n == proc[p].Records[1].SequenceNumber
           listed == n \notin Handled(proc[p].Records,
                                      proc[p].batch_item_failures)
       IN /\ acked' = IF listed THEN acked ELSE acked \cup {n}
          /\ dlq' = IF listed /\ Exhausted(n) THEN dlq \cup {n} ELSE dlq
    /\ UNCHANGED <<attempts, handles>>

NextMapping ==
    \/ \E event \in Requests(Orders, {"crisps"}) :
           Budget(event, 1) /\ CreateValid("c1", event)
    \/ CreatePutOk("c1")
    \/ MapDeliver("p1")
    \/ ProcSkip("p1")
    \/ ProcReadClock("p1")
    \/ ProcUpdateOk("p1")
    \/ ProcUpdateConflict("p1")
    \/ ProcUpdateFault("p1")
    \/ ProcPublishOk("p1")
    \/ ProcPublishFault("p1")
    \/ MapCheckpoint("p1")

\* the mapping and the invocation go on; no call is ever bound to succeed
FairnessMapping ==
    /\ WF_vars(CreatePutOk("c1"))
    /\ WF_vars(MapDeliver("p1"))
    /\ WF_vars(ProcSkip("p1") \/ ProcReadClock("p1") \/ ProcUpdateOk("p1")
               \/ ProcUpdateConflict("p1") \/ ProcUpdateFault("p1")
               \/ ProcPublishOk("p1") \/ ProcPublishFault("p1")
               \/ MapCheckpoint("p1"))

SpecMapping == Init /\ [][NextMapping]_vars /\ FairnessMapping

\* SpecHandles: the threads of one process use the two accessors, each up to
\* MaxUses times, in any interleaving.
NextHandles ==
    \E t \in Threads :
        \/ \E f \in Accessors : CacheHit(t, f)
        \/ \E f \in Accessors : CacheMiss(t, f)
        \/ Construct(t)
        \/ CacheStore(t)

SpecHandles == Init /\ [][NextHandles]_vars

\* ------------------------------------------------------------------ claims
\* the status codes answered for orderId o, in order
Codes(o) == [k \in 1..Len(answers[o]) |-> answers[o][k].response.statusCode]

\* the sequence s without its elements equal to x
RECURSIVE Without(_, _)
Without(s, x) ==
    IF s = << >> THEN << >>
    ELSE IF Head(s) = x THEN Without(Tail(s), x)
    ELSE <<Head(s)>> \o Without(Tail(s), x)

\* the records of the stream written by the update of orderId o
Transitions(s, o) ==
    {k \in 1..Len(s) : s[k].eventName = "MODIFY" /\ s[k].orderId = o}

\* C1: for every orderId, whatever the interleaving of overlapping or
\* duplicate deliveries to the process_order invocations, at most one
\* notification for that order has been published.
C1_AtMostOneNotification ==
    \A o \in Orders : CopiesIn(Message(o), published) <= 1

\* C1 witness: two invocations handled the same order concurrently; one made
\* the transition and published, the other met the condition failure.
C1_Witness ==
    /\ CopiesIn(Message("o1"), published) = 1
    /\ \E p, q \in Processors :
          /\ p # q
          /\ Returning(p) /\ Returning(q)
          /\ proc[p].outcome = <<"done">>
          /\ proc[q].outcome = <<"conflict", "conflict">>
          /\ \A k \in 1..2 : proc[q].Records[k].orderId = "o1"

\* C2: idempotent create.  For every orderId, leaving aside the calls whose
\* write the storage layer failed (answered 500), the answers to the valid
\* calls are 201 for the first and 200 for every later one, and the table
\* holds the record exactly when a call was answered 201.
C2_IdempotentCreate ==
    \A o \in Orders :
        LET a == Without(answers[o], [response |-> InternalError, raced |-> TRUE])
            b == Without(a, [response |-> InternalError, raced |-> FALSE])
        IN /\ \A k \in 1..Len(b) :
                 /\ b[k].response.statusCode = IF k = 1 THEN 201 ELSE 200
                 /\ b[k].response.message =
                        IF k = 1 THEN "Order created successfully"
                        ELSE "Order already exists"
                 /\ b[k].response.orderId = o
           /\ (o \in DOMAIN table) <=> (b # << >>)

\* C2 witness: two calls for one orderId were answered, 201 then 200.
C2_Witness ==
    /\ Codes("o1") = <<201, 200>>
    /\ "o1" \in DOMAIN table

\* C3: of the calls for one orderId that began while the key had no record
\* and whose write the storage layer did not fail, exactly one is answered
\* 201 and all the others 200.
C3_ExactlyOneCreated ==
    \A o \in Orders :
        LET raced == {k \in 1..Len(answers[o]) :
                        /\ answers[o][k].raced
                        /\ answers[o][k].response.statusCode # 500}
        IN raced # {} =>
             /\ Cardinality({k \in raced :
                                answers[o][k].response.statusCode = 201}) = 1
             /\ \A k \in raced :
                    answers[o][k].response.statusCode \in {200, 201}

\* C3 witness: two calls began while the key had no record; both were
\* answered, one 201 and the other 200.
C3_Witness ==
    /\ Len(answers["o1"]) = 2
    /\ answers["o1"][1].raced /\ answers["o1"][2].raced
    /\ answers["o1"][1].response.statusCode = 201
    /\ answers["o1"][2].response.statusCode = 200

\* C4: every order whose stored status becomes PROCESSED eventually has a
\* notification published for it.
C4_EveryTransitionNotified ==
    \A o \in Orders :
        (o \in DOMAIN table /\ table[o].status = "PROCESSED")
            ~> (CopiesIn(Message(o), published) >= 1)

\* C5: every order created with status NEW eventually reaches PROCESSED.
C5_EventuallyProcessed ==
    \A o \in Orders :
        (o \in DOMAIN table /\ table[o].status = "NEW")
            ~> (o \in DOMAIN table /\ table[o].status = "PROCESSED")

\* C5 witness: an order was created, its INSERT record was delivered, the
\* update was made and the record is held as handled.
C5_Witness ==
    /\ "o1" \in DOMAIN table
    /\ table["o1"].status = "PROCESSED"
    /\ \E r \in StreamRecords :
          /\ r.eventName = "INSERT" /\ r.orderId = "o1"
          /\ r.SequenceNumber \in acked

\* C6: the status of a stored record only ever changes from NEW to
\* PROCESSED, and a record that is PROCESSED stays PROCESSED, whatever step
\* of create_order or process_order is taken.
C6_StatusMonotonic ==
    [][\A o \in DOMAIN table :
          /\ o \in DOMAIN table'
          /\ table'[o].status # table[o].status =>
                table[o].status = "NEW" /\ table'[o].status = "PROCESSED"
          /\ table[o].status = "PROCESSED" => table'[o].status = "PROCESSED"]_vars

\* C6 witness: a create_order call that began when the record existed is at
\* its conditional write while the record is PROCESSED.
C6_Witness ==
    /\ "o1" \in DOMAIN table
    /\ table["o1"].status = "PROCESSED"
    /\ \E c \in Creators :
          /\ create[c].pc = "put"
          /\ create[c].item.orderId = "o1"
          /\ ~create[c].raced

\* C7: the NEW->PROCESSED update is applied at most once per record, and no
\* step changes the status or the processedAt of a record that is PROCESSED.
C7_SingleTransition ==
    [][\A o \in DOMAIN table :
          /\ Cardinality(Transitions(stream', o)) <= 1
          /\ table[o].status = "PROCESSED" =>
                /\ o \in DOMAIN table'
                /\ table'[o].status = table[o].status
                /\ table'[o].processedAt = table[o].processedAt]_vars

\* C7 witness: a record processed at instant 0 was handled again by an
\* invocation that read the clock at a later instant and met the condition
\* failure.
C7_Witness ==
    /\ "o1" \in DOMAIN table
    /\ table["o1"].status = "PROCESSED"
    /\ table["o1"].processedAt = 0
    /\ \E p \in Processors :
          /\ Returning(p)
          /\ proc[p].outcome = <<"conflict">>
          /\ proc[p].processed_at > 0

\* C8: a stored record has a processedAt attribute exactly when its status is
\* PROCESSED.
C8_ProcessedAtIffProcessed ==
    \A o \in DOMAIN table :
        ("processedAt" \in DOMAIN table[o]) <=> (table[o].status = "PROCESSED")

\* C8 witness: a record that was NEW, without processedAt, is PROCESSED and
\* carries the instant read by the invocation that made the transition.
C8_Witness ==
    /\ "o1" \in DOMAIN table
    /\ table["o1"].status = "PROCESSED"
    /\ "processedAt" \in DOMAIN table["o1"]
    /\ table["o1"].processedAt = 1
    /\ table["o1"].createdAt = 0

\* the tags of a record whose handling raised into the except block of
\* lines 117-121
Raised == {"image_error", "update_error", "publish_error"}

\* the sequence numbers of the records at the positions `at` of s, in order
RECURSIVE IdentifiersAt(_, _, _)
IdentifiersAt(s, at, k) ==
    IF k > Len(s) THEN << >>
    ELSE (IF k \in at THEN <<SequenceNumber(s[k])>> ELSE << >>)
             \o IdentifiersAt(s, at, k + 1)

\* C9: when the loop of an invocation is over and exactly one record of the
\* event had its update_item raise a non-conditional error, and nothing else
\* raised, the failure list holds exactly that record's sequence number, and
\* every other actionable record of the event, before or after it, was
\* handled to the end: its order is PROCESSED, and the notification was
\* published if this handling made the transition.
C9_PartialBatchIsolation ==
    \A p \in Processors :
        LET pr == proc[p]
            failing == {k \in 1..Len(pr.outcome) : pr.outcome[k] = "update_error"}
            raised == {k \in 1..Len(pr.outcome) : pr.outcome[k] \in Raised}
        IN (/\ Returning(p)
            /\ Cardinality(failing) = 1
            /\ raised = failing
            /\ \A k \in failing : SequenceNumber(pr.Records[k]) # NoSeq)
           => /\ \A j \in failing :
                    pr.batch_item_failures = <<SequenceNumber(pr.Records[j])>>
              /\ \A k \in 1..Len(pr.Records) :
                    (k \notin failing /\ Classify(pr.Records[k]) = "actionable")
                    => /\ k <= Len(pr.outcome)
                       /\ pr.outcome[k] \in {"done", "conflict"}
                       /\ pr.Records[k].orderId \in DOMAIN table
                       /\ table[pr.Records[k].orderId].status = "PROCESSED"
                       /\ pr.outcome[k] = "done" =>
                             CopiesIn(Message(pr.Records[k].orderId),
                                      published) >= 1

\* C9 witness: an event of two actionable records; the update of the first
\* raised, the second was transitioned and notified.
C9_Witness ==
    /\ Returning("p1")
    /\ proc["p1"].outcome = <<"update_error", "done">>
    /\ proc["p1"].Records[1].orderId = "o1"
    /\ proc["p1"].Records[2].orderId = "o2"
    /\ proc["p1"].batch_item_failures = <<11>>
    /\ table["o2"].status = "PROCESSED"
    /\ CopiesIn(Message("o2"), published) = 1

\* C10: the failure list of an invocation holds one identifier for each
\* record whose handling raised, in order, whatever the record's shape, and
\* nothing for a record whose handling did not raise.
C10_EveryFailureReported ==
    \A p \in Processors :
        LET pr == proc[p]
            raised == {k \in 1..Len(pr.outcome) : pr.outcome[k] \in Raised}
        IN pr.pc = "loop" =>
              pr.batch_item_failures = IdentifiersAt(pr.Records, raised, 1)

\* C11: no invocation of process_order ends with an exception.
C11_NeverRaises == \A p \in Processors : proc[p].pc # "raised"

\* the tag of the record that invocation state pr finished last
LastTag(pr) == IF pr.outcome = << >> THEN "none" ELSE pr.outcome[Len(pr.outcome)]

\* invocation p takes a step that is neither the abort of the invocation nor
\* a call that raised with the given tag
Answered(p, tag) ==
    /\ proc'[p] # proc[p]
    /\ proc'[p].pc # "idle"
    /\ ~(proc'[p].pc = "loop" /\ LastTag(proc'[p]) = tag)

\* C12: when update_item is called for an entry while the stored record is
\* no longer NEW and answers (no transient storage error), the entry is
\* finished at once: table, stream and topic are unchanged and nothing is
\* added to the failure list.
C12_ConflictIsSuccess ==
    [][\A p \in Processors :
          (/\ proc[p].pc = "update"
           /\ Current(p).orderId \in DOMAIN table
           /\ table[Current(p).orderId].status # "NEW"
           /\ Answered(p, "update_error"))
          => /\ proc'[p].pc = "loop"
             /\ proc'[p].i = proc[p].i + 1
             /\ table' = table
             /\ stream' = stream
             /\ published' = published
             /\ proc'[p].batch_item_failures = proc[p].batch_item_failures]_vars

\* C12 witness: an entry with image status NEW was handled while the record
\* was PROCESSED and notified; the invocation returns an empty failure list.
C12_Witness ==
    /\ "o1" \in DOMAIN table
    /\ table["o1"].status = "PROCESSED"
    /\ published = SetToBag({Message("o1")})
    /\ Cardinality(Transitions(stream, "o1")) = 1
    /\ \E p \in Processors :
          /\ Returning(p)
          /\ Len(proc[p].Records) = 1
          /\ proc[p].Records[1].status = "NEW"
          /\ proc[p].Records[1].orderId = "o1"
          /\ proc[p].outcome = <<"conflict">>
          /\ proc[p].batch_item_failures = << >>

\* an entry of one of the four kinds that call for no action
Irrelevant(r) ==
    \/ r.eventName \notin {"INSERT", "MODIFY"}
    \/ r.dynamodb = "dict" /\ r.NewImage = "absent"
    \/ /\ r.dynamodb = "dict"
       /\ r.NewImage = "dict"
       /\ (r.orderId \in {NoneVal, ""} \/ r.status # "NEW")

\* C13: handling an entry whose kind is not INSERT or MODIFY, or whose
\* NewImage is absent, or whose image has no orderId or a status other than
\* NEW, makes no storage update, publishes nothing and adds nothing to the
\* failure list.
C13_IrrelevantEntryNoOp ==
    [][\A p \in Processors :
          (InLoop(p) /\ Irrelevant(Current(p)) /\ proc'[p] # proc[p])
          => /\ table' = table
             /\ stream' = stream
             /\ published' = published
             /\ proc'[p].pc \notin {"update", "publish"}
             /\ proc'[p].batch_item_failures = proc[p].batch_item_failures]_vars

\* C13 witness: an event of a REMOVE entry and an entry with status
\* PROCESSED was handled while an order waits as NEW; nothing was written,
\* published or reported.
C13_Witness ==
    /\ Returning("p1")
    /\ Len(proc["p1"].Records) = 2
    /\ proc["p1"].Records[1].eventName = "REMOVE"
    /\ proc["p1"].Records[1].orderId = "o2"
    /\ proc["p1"].Records[2].status = "PROCESSED"
    /\ proc["p1"].outcome = <<"skip", "skip">>
    /\ proc["p1"].batch_item_failures = << >>
    /\ "o2" \in DOMAIN table
    /\ table["o2"].status = "NEW"
    /\ published = EmptyBag

\* C14: for an actionable entry whose stored record is NEW, an update_item
\* that answers sets status PROCESSED and processedAt to the instant read
\* at line 78, and a publish that answers adds exactly one message
\* {orderId, status: PROCESSED} for that order; neither adds to the failure
\* list.
C14_ActionableEntry ==
    [][\A p \in Processors :
          /\ (/\ proc[p].pc = "update"
               /\ Current(p).orderId \in DOMAIN table
               /\ table[Current(p).orderId].status = "NEW"
               /\ Answered(p, "update_error"))
              => /\ proc'[p].pc = "publish"
                 /\ table'[Current(p).orderId].status = "PROCESSED"
                 /\ "processedAt" \in DOMAIN table'[Current(p).orderId]
                 /\ table'[Current(p).orderId].processedAt = proc[p].processed_at
                 /\ published' = published
                 /\ proc'[p].batch_item_failures = proc[p].batch_item_failures
          /\ (proc[p].pc = "publish" /\ Answered(p, "publish_error"))
              => /\ published' = published (+) SetToBag(
                        {[orderId |-> Current(p).orderId, status |-> "PROCESSED"]})
                 /\ table' = table
                 /\ LastTag(proc'[p]) = "done"
                 /\ proc'[p].batch_item_failures = proc[p].batch_item_failures]_vars

\* C14 witness: a MODIFY entry with image status NEW was handled while the
\* record was NEW: the record is PROCESSED with processedAt, one message was
\* published for it and the failure list is empty.
C14_Witness ==
    /\ Returning("p1")
    /\ Len(proc["p1"].Records) = 1
    /\ proc["p1"].Records[1].eventName = "MODIFY"
    /\ proc["p1"].Records[1].orderId = "o2"
    /\ proc["p1"].outcome = <<"done">>
    /\ proc["p1"].batch_item_failures = << >>
    /\ table["o2"].status = "PROCESSED"
    /\ "processedAt" \in DOMAIN table["o2"]
    /\ CopiesIn(Message("o2"), published) = 1

\* C15: no step, the abort of an invocation included, changes a record that
\* is PROCESSED; the abort itself changes neither table, stream nor topic;
\* and however often the events are delivered again afterwards, each order
\* has at most one transition and at most one notification.
C15_AbortSafety ==
    [][/\ \A o \in DOMAIN table :
             table[o].status = "PROCESSED" =>
                 o \in DOMAIN table' /\ table'[o] = table[o]
       /\ \A o \in Orders :
             /\ Cardinality(Transitions(stream', o)) <= 1
             /\ CopiesIn(Message(o), published') <= 1
       /\ \A p \in Processors :
             (proc[p] # ProcIdle /\ proc'[p] = ProcIdle)
             => table' = table /\ stream' = stream /\ published' = published]_vars

\* C15 witness: an invocation was ended after the update of o1 and before
\* its publish (o1 is PROCESSED, nothing was published for it and no publish
\* is under way); the whole event was delivered again: the entry of o1 met
\* the condition failure, the entry of o2 was transitioned and notified.
C15_Witness ==
    /\ Returning("p1")
    /\ Len(proc["p1"].Records) = 2
    /\ proc["p1"].Records[1].orderId = "o1"
    /\ proc["p1"].Records[2].orderId = "o2"
    /\ proc["p1"].outcome = <<"conflict", "done">>
    /\ table["o1"].status = "PROCESSED"
    /\ table["o2"].status = "PROCESSED"
    /\ Cardinality(Transitions(stream, "o1")) = 1
    /\ published = SetToBag({Message("o2")})

\* a request field that is missing, empty or not a string
FieldInvalid(x) == x.type # "str" \/ x.v = ""

\* C16: every call whose request has an orderId or snackType that is
\* missing, empty or not a string (its body, if a string, being well-formed)
\* is answered 400 with the error that names the first such field, and does
\* not go on to the write.
C16_ValidationCompleteness ==
    \A c \in Creators :
        LET r == called[c].request
            a == called[c].response
        IN (/\ called[c] # NoCall
            /\ r.syntax # "malformed"
            /\ (FieldInvalid(r.orderId) \/ FieldInvalid(r.snackType)))
           => /\ a.statusCode = 400
              /\ a.error =
                    IF FieldInvalid(r.orderId)
                    THEN "Missing or invalid orderId (must be a non-empty string)"
                    ELSE "Missing or invalid snackType (must be a non-empty string)"

\* C17: a call whose body is a string that is not well-formed JSON is
\* answered 400 "Invalid JSON in request body", whatever fields the text
\* shows, and does not go on to the write.
C17_MalformedBody ==
    \A c \in Creators :
        (called[c].request.body = "str" /\ called[c].request.syntax = "malformed")
        => /\ called[c].response.statusCode = 400
           /\ called[c].response.error = "Invalid JSON in request body"
           /\ create[c].pc = "idle"

\* C17 witness: a malformed body whose text shows an empty orderId was
\* answered with the JSON error, not the orderId error, and nothing is stored.
C17_Witness ==
    /\ called["c1"].request.body = "str"
    /\ called["c1"].request.syntax = "malformed"
    /\ called["c1"].request.orderId = PyStr("")
    /\ called["c1"].response.statusCode = 400
    /\ called["c1"].response.error = "Invalid JSON in request body"
    /\ table = << >>

\* invocation c of create_order, at its write, returns
Answers(c) == create[c].pc = "put" /\ create'[c] # create[c]

\* the response that step returns
Response(c) ==
    LET a == answers'[create[c].item.orderId] IN a[Len(a)].response

\* C18: when the write of create_order leaves the table as it was although
\* the key had no record (put_item failed otherwise than on its condition),
\* the answer is 500 "Internal server error" and the key still has no
\* record; and no call answered 500 wrote anything.
C18_StorageFailureIs500 ==
    [][\A c \in Creators :
          Answers(c) =>
             /\ (create[c].item.orderId \notin DOMAIN table /\ table' = table)
                 => /\ Response(c).statusCode = 500
                    /\ Response(c).error = "Internal server error"
                    /\ create[c].item.orderId \notin DOMAIN table'
             /\ Response(c).statusCode = 500
                 => table' = table /\ stream' = stream]_vars

\* C18 witness: a call for a key without record was answered 500 and the key
\* has no record.
C18_Witness ==
    /\ Codes("o1") = <<500>>
    /\ answers["o1"][1].response.error = "Internal server error"
    /\ "o1" \notin DOMAIN table
    /\ stream = << >>

\* C19: a call is answered 201 exactly when its write created the record,
\* which is then the item built from the request, with status NEW; it is
\* answered 200 only if the key had a record when the write was attempted,
\* and, the storage layer not failing, whenever it had one.
C19_ResponseReflectsStore ==
    [][\A c \in Creators :
          Answers(c) =>
             /\ Response(c).statusCode = 201 <=>
                    /\ create[c].item.orderId \notin DOMAIN table
                    /\ create[c].item.orderId \in DOMAIN table'
                    /\ table'[create[c].item.orderId] = create[c].item
                    /\ table'[create[c].item.orderId].status = "NEW"
             /\ Response(c).statusCode = 200
                    => create[c].item.orderId \in DOMAIN table
             /\ (create[c].item.orderId \in DOMAIN table
                  /\ Response(c).statusCode # 500)
                    => Response(c).statusCode = 200]_vars

\* C19 witness: one call was answered 201 and the record holds the
\* request's orderId and snackType with status NEW.
C19_Witness ==
    /\ Len(answers["o1"]) = 1
    /\ answers["o1"][1].response.statusCode = 201
    /\ answers["o1"][1].response.orderId = "o1"
    /\ "o1" \in DOMAIN table
    /\ table["o1"].orderId = "o1"
    /\ table["o1"].snackType = "nuts"
    /\ table["o1"].status = "NEW"

\* C20: a call whose write is attempted while the key has a record leaves
\* the table (every attribute of the record) and the stream unchanged and,
\* the storage layer not failing, answers 200 "Order already exists".
C20_ExistingRecordUntouched ==
    [][\A c \in Creators :
          (Answers(c) /\ create[c].item.orderId \in DOMAIN table)
          => /\ table' = table
             /\ stream' = stream
             /\ Response(c).statusCode # 500
                 => /\ Response(c).statusCode = 200
                    /\ Response(c).message = "Order already exists"
                    /\ Response(c).orderId = create[c].item.orderId]_vars

\* C20 witness: a call with snackType nuts, begun when the record existed,
\* is at its write while the record holds snackType crisps, is PROCESSED and
\* has processedAt.
C20_Witness ==
    /\ "o1" \in DOMAIN table
    /\ table["o1"].snackType = "crisps"
    /\ table["o1"].status = "PROCESSED"
    /\ "processedAt" \in DOMAIN table["o1"]
    /\ Codes("o1") = <<201>>
    /\ \E c \in Creators :
          /\ create[c].pc = "put"
          /\ create[c].item.orderId = "o1"
          /\ create[c].item.snackType = "nuts"
          /\ ~create[c].raced

\* the attributes of a record that create_order writes and nothing changes
Immutable == {"orderId", "snackType", "createdAt", "expiresAt"}

\* C21: no step removes a record or changes its orderId, snackType,
\* createdAt or expiresAt; a step that changes a record is the processor's
\* update and changes only status and processedAt.
C21_OnlyStatusAndProcessedAt ==
    [][\A o \in DOMAIN table :
          /\ o \in DOMAIN table'
          /\ Immutable \subseteq DOMAIN table'[o]
          /\ \A a \in Immutable : table'[o][a] = table[o][a]
          /\ DOMAIN table'[o] \subseteq DOMAIN table[o] \cup {"status", "processedAt"}
          /\ \A a \in DOMAIN table[o] \ {"status", "processedAt"} :
                table'[o][a] = table[o][a]]_vars

\* C21 witness: a record created at instant 0 with snackType nuts was
\* transitioned at instant 1 and then handled again; it holds the attributes
\* it was created with.
C21_Witness ==
    /\ "o1" \in DOMAIN table
    /\ table["o1"] = [orderId |-> "o1", snackType |-> "nuts", status |-> "PROCESSED",
                      createdAt |-> 0, expiresAt |-> ttl_days * SecondsPerDay,
                      processedAt |-> 1]
    /\ \E p \in Processors : Returning(p) /\ proc[p].outcome = <<"conflict">>

\* C22: no step removes a record; a record that appears in the table is the
\* item of a create_order invocation at its write, with status NEW, and no
\* process_order invocation moves in that step; and handling an entry whose
\* orderId has no record leaves table, stream and topic as they are and
\* never reaches the publish.
C22_Lifecycle ==
    [][/\ \A o \in DOMAIN table : o \in DOMAIN table'
       /\ \A o \in DOMAIN table' \ DOMAIN table :
             /\ table'[o].status = "NEW"
             /\ \E c \in Creators :
                   /\ create[c].pc = "put"
                   /\ create'[c].pc = "idle"
                   /\ table'[o] = create[c].item
             /\ proc' = proc
       /\ \A p \in Processors :
             (/\ proc[p].pc = "update"
              /\ Current(p).orderId \notin DOMAIN table
              /\ proc'[p] # proc[p])
             => /\ table' = table
                /\ stream' = stream
                /\ published' = published
                /\ proc'[p].pc \in {"loop", "idle"}]_vars

\* C22 witness: an entry with status NEW for o2 was handled while o2 had no
\* record: the update met the condition failure, o2 still has no record and
\* nothing was published; o1, created meanwhile, is NEW.
C22_Witness ==
    /\ Returning("p1")
    /\ Len(proc["p1"].Records) = 1
    /\ proc["p1"].Records[1].orderId = "o2"
    /\ proc["p1"].Records[1].status = "NEW"
    /\ proc["p1"].outcome = <<"conflict">>
    /\ DOMAIN table = {"o1"}
    /\ table["o1"].status = "NEW"
    /\ published = EmptyBag
    /\ Len(stream) = 1

\* C23: a create_order invocation writes nothing before its put_item; the
\* step in which it calls put_item is its only one at the write: it ends the
\* invocation with one response, and the table is either unchanged or holds
\* the invocation's item in addition, with one record more on the stream;
\* and no step of a create_order invocation changes the topic.
C23_OneWriteAttemptNoPublish ==
    [][\A c \in Creators :
          /\ (/\ create[c].pc = "idle"
              /\ (create'[c] # create[c] \/ called'[c] # called[c]))
             => /\ table' = table
                /\ stream' = stream
                /\ answers' = answers
                /\ published' = published
          /\ (/\ create[c].pc = "put"
              /\ (create'[c] # create[c] \/ answers' # answers \/ table' # table))
             => /\ create'[c].pc = "idle"
                /\ Len(answers'[create[c].item.orderId])
                       = Len(answers[create[c].item.orderId]) + 1
                /\ \/ table' = table /\ stream' = stream
                   \/ /\ table' = PutItem(table, create[c].item)
                      /\ Len(stream') = Len(stream) + 1
                /\ published' = published]_vars

\* C23 witness: two valid calls for one orderId were answered 201 and 200
\* with one record on the stream, a later call was answered 400, and nothing
\* was published.
C23_Witness ==
    /\ Codes("o1") = <<201, 200>>
    /\ Len(stream) = 1
    /\ stream[1].eventName = "INSERT"
    /\ create["c1"].pc = "idle"
    /\ called["c1"].response.statusCode = 400
    /\ published = EmptyBag

\* the direct form of an event, and the form that carries the same object as
\* the text of a string body
Direct(event) == [event EXCEPT !.body = "absent"]

Wrapped(event) == [event EXCEPT !.body = "str"]

\* what lines 35-76 leave of invocation c for `event`
Prepared(c, event) ==
    IF Entry(event) = NoResponse
    THEN [pc |-> "put",
          item |-> OrderItem(PlainBody(event).orderId,
                             PlainBody(event).snackType, now),
          raced |-> PlainBody(event).orderId \notin DOMAIN table]
    ELSE create[c]

\* C24: a call whose request is an object, valid or not, made in either form
\* and in any store state, is answered before the write as its other form
\* is, and leaves the invocation with the item the other form prepares, the
\* table untouched: the same write and the same answer follow.
C24_DualCallingConvention ==
    [][\A c \in Creators :
          (/\ create[c].pc = "idle"
           /\ (called'[c] # called[c] \/ create'[c] # create[c])
           /\ called'[c].request.syntax = "object")
          => LET direct == Direct(called'[c].request)
                 wrapped == Wrapped(called'[c].request)
             IN /\ {direct, wrapped} \subseteq IntakeEvents
                /\ Entry(wrapped) = Entry(direct)
                /\ Prepared(c, wrapped) = Prepared(c, direct)
                /\ called'[c].response = Entry(direct)
                /\ called'[c].response = Entry(wrapped)
                /\ create'[c] = Prepared(c, direct)
                /\ create'[c] = Prepared(c, wrapped)
                /\ table' = table]_vars

\* C24 witness: a gateway-wrapped valid request is at its write with the
\* item of the direct request, while the key holds the record of an earlier
\* call.
C24_Witness ==
    /\ called["c1"].request.body = "str"
    /\ called["c1"].request.syntax = "object"
    /\ called["c1"].request.orderId = PyStr("o1")
    /\ called["c1"].response = NoResponse
    /\ create["c1"].pc = "put"
    /\ create["c1"].item.orderId = "o1"
    /\ create["c1"].item.snackType = "nuts"
    /\ ~create["c1"].raced
    /\ Codes("o1") = <<201>>

\* C25: every stored record has expiresAt equal to the whole seconds of its
\* creation instant plus ttl_days days (less than a second before that
\* instant, never after it), which is later than the creation instant.
C25_ExpiresAtIsCreationPlusWindow ==
    \A o \in DOMAIN table :
        LET created == table[o].createdAt
            expiry == created + ttl_days * SecondsPerDay * TicksPerSecond
            whole == table[o].expiresAt * TicksPerSecond
        IN /\ whole <= expiry
           /\ expiry < whole + TicksPerSecond
           /\ whole > created

\* C25 witness: a record created half a second past a whole second holds
\* the whole seconds of the instant seven days later.
C25_Witness ==
    /\ "o1" \in DOMAIN table
    /\ table["o1"].createdAt = 1
    /\ table["o1"].createdAt % TicksPerSecond # 0
    /\ table["o1"].expiresAt = 7 * 86400

\* invocation p finishes the record at hand with `tag`
Finishes(p, tag) ==
    /\ Len(proc'[p].outcome) = Len(proc[p].outcome) + 1
    /\ LastTag(proc'[p]) = tag

\* C26: when the publish of an entry raises after its update succeeded, the
\* entry's sequence number (if the entry carries one) is appended to the
\* failure list, the record stays PROCESSED with its processedAt, nothing is
\* published for it, and the loop goes on to the next entry of the batch.
C26_PublishFailureReported ==
    [][\A p \in Processors :
          (proc[p].pc = "publish" /\ Finishes(p, "publish_error"))
          => /\ SequenceNumber(Current(p)) # NoSeq =>
                   proc'[p].batch_item_failures =
                       Append(proc[p].batch_item_failures,
                              SequenceNumber(Current(p)))
             /\ table' = table
             /\ table[Current(p).orderId].status = "PROCESSED"
             /\ "processedAt" \in DOMAIN table[Current(p).orderId]
             /\ published' = published
             /\ proc'[p].pc = "loop"
             /\ proc'[p].i = proc[p].i + 1
             /\ proc'[p].Records = proc[p].Records]_vars

\* C26 witness: the publish for o1 raised after its update; the entry is in
\* the failure list, o1 is PROCESSED without notification, and the next
\* entry of the batch, for o2, was transitioned and notified.
C26_Witness ==
    /\ Returning("p1")
    /\ proc["p1"].outcome = <<"publish_error", "done">>
    /\ proc["p1"].Records[1].orderId = "o1"
    /\ proc["p1"].Records[2].orderId = "o2"
    /\ proc["p1"].batch_item_failures = <<11>>
    /\ table["o1"].status = "PROCESSED"
    /\ table["o2"].status = "PROCESSED"
    /\ published = SetToBag({Message("o2")})

\* the loop of invocation p is over and the update of an entry for orderId o
\* raised a storage error in it
UpdateFailed(p, o) ==
    /\ Returning(p)
    /\ \E k \in 1..Len(proc[p].outcome) :
          /\ proc[p].outcome[k] = "update_error"
          /\ proc[p].Records[k].orderId = o

\* C27: when update_item raises a storage error other than the condition
\* failure, the step leaves the table as it was (a NEW record is still NEW,
\* without processedAt), publishes nothing and appends the entry's sequence
\* number to the failure list; no order is ever notified twice; and, the
\* entry being delivered again, the order is eventually PROCESSED and
\* notified exactly once.
C27_UpdateFailureRedelivered ==
    /\ [][\A p \in Processors :
             (proc[p].pc = "update" /\ Finishes(p, "update_error"))
             => /\ table' = table
                /\ (Current(p).orderId \in DOMAIN table
                     /\ table[Current(p).orderId].status = "NEW")
                    => /\ table'[Current(p).orderId].status = "NEW"
                       /\ "processedAt" \notin DOMAIN table'[Current(p).orderId]
                /\ published' = published
                /\ proc'[p].pc = "loop"
                /\ proc'[p].batch_item_failures =
                       Append(proc[p].batch_item_failures,
                              SequenceNumber(Current(p)))]_vars
    /\ [](\A o \in Orders : CopiesIn(Message(o), published) <= 1)
    /\ \A o \in Orders :
          (\E p \in Processors : UpdateFailed(p, o))
              ~> (/\ o \in DOMAIN table
                  /\ table[o].status = "PROCESSED"
                  /\ CopiesIn(Message(o), published) = 1)

\* C27 witness: the update of the entry of o1 raised in one invocation, which
\* lists the entry as failed; the entry, handed over again, was handled to
\* the end: o1 is PROCESSED, notified once, and the entry is held as handled.
C27_Witness ==
    /\ \E p \in Processors :
          /\ UpdateFailed(p, "o1")
          /\ proc[p].outcome = <<"update_error">>
          /\ proc[p].batch_item_failures = <<1>>
    /\ table["o1"].status = "PROCESSED"
    /\ published = SetToBag({Message("o1")})
    /\ 1 \in acked

\* C28: every message on the topic carries status PROCESSED and names an
\* orderId whose stored record has status PROCESSED; no message names an
\* order that is NEW or has no record.
C28_UpdatePrecedesPublish ==
    \A m \in BagToSet(published) :
        /\ m.status = "PROCESSED"
        /\ m.orderId \in DOMAIN table
        /\ table[m.orderId].status = "PROCESSED"

\* C28 witness: a batch of an entry for o1, stored as NEW, and an entry for
\* o2, which has no record, was handled: o1 is PROCESSED and notified, and
\* nothing was published for o2.
C28_Witness ==
    /\ Returning("p1")
    /\ proc["p1"].outcome = <<"done", "conflict">>
    /\ proc["p1"].Records[1].orderId = "o1"
    /\ proc["p1"].Records[2].orderId = "o2"
    /\ DOMAIN table = {"o1"}
    /\ table["o1"].status = "PROCESSED"
    /\ BagToSet(published) = {[orderId |-> "o1", status |-> "PROCESSED"]}

\* some order was created and every created order is PROCESSED
AllProcessed ==
    /\ DOMAIN table # {}
    /\ \A o \in DOMAIN table : table[o].status = "PROCESSED"

\* C29: the stream record of the processor's own update carries status
\* PROCESSED and is one the handler skips; handling it writes and publishes
\* nothing; no order has more than one transition on the stream; once every
\* created order is PROCESSED no process_order step changes table or stream;
\* and from then on the stream is eventually, and for good, without a
\* record left to handle.
C29_NoFeedbackLoop ==
    /\ [](\A k \in 1..Len(stream) :
             stream[k].eventName = "MODIFY"
             => stream[k].status = "PROCESSED" /\ Classify(stream[k]) = "skip")
    /\ [](\A o \in Orders : Cardinality(Transitions(stream, o)) <= 1)
    /\ [][/\ \A p \in Processors :
                (/\ InLoop(p)
                 /\ Current(p).eventName = "MODIFY"
                 /\ proc'[p] # proc[p]
                 /\ proc'[p].pc # "idle")
                => /\ Finishes(p, "skip")
                   /\ table' = table
                   /\ stream' = stream
                   /\ published' = published
          /\ (AllProcessed /\ create' = create)
                => table' = table /\ stream' = stream]_vars
    /\ (AllProcessed ~> [](Pending = {}))

\* C29 witness: o1 was transitioned and notified, the record of that update
\* was delivered and skipped, and no record of the stream is left to handle.
C29_Witness ==
    /\ AllProcessed
    /\ Len(stream) = 2
    /\ stream[2].eventName = "MODIFY"
    /\ stream[2].orderId = "o1"
    /\ Pending = {}
    /\ published = SetToBag({Message("o1")})
    /\ \A p \in Processors : proc[p] = ProcIdle

\* Handling one entry as a function.  A world is the table, the topic and
\* the identifiers reported so far; `fate` is what the storage layer and the
\* topic answer to the entry's calls: "ok", "update_error" (update_item
\* raises an error other than the condition failure) or "publish_error";
\* the clock reads t.  Lines 49-121 for an entry whose `dynamodb` is a dict.
HandleEntry(w, r, fate, t) ==
    LET reported ==
            [w EXCEPT !.failures = ReportFailure(@, SequenceNumber(r))]
    IN CASE Classify(r) = "skip" -> w
         [] Classify(r) = "error" -> reported
         [] OTHER ->
              IF fate = "update_error" THEN reported
              ELSE IF ~UpdateCondition(w.table, r.orderId) THEN w
              ELSE IF fate = "publish_error"
              THEN [reported EXCEPT
                        !.table = UpdateItem(w.table, r.orderId, t)]
              ELSE [w EXCEPT
                        !.table = UpdateItem(w.table, r.orderId, t),
                        !.published = @ (+) SetToBag({Message(r.orderId)})]

\* the entries of `records` handled one after the other in the order
\* `order`, each as an event of its own, from position k of `order` on
RECURSIVE HandleEach(_, _, _, _, _, _)
HandleEach(w, records, fates, t, order, k) ==
    IF k > Len(order) THEN w
    ELSE HandleEach(HandleEntry(w, records[order[k]], fates[order[k]], t),
                    records, fates, t, order, k + 1)

\* the orders in which n entries can be taken
Orderings(n) ==
    {order \in [1..n -> 1..n] : \A i, j \in 1..n : order[i] = order[j] => i = j}

\* what the calls of an entry met, by the tag of its handling
FateOf(tag) == IF tag \in {"update_error", "publish_error"} THEN tag ELSE "ok"

\* the record of orderId o as it was before this invocation's update
BeforeUpdate(o) ==
    [a \in DOMAIN table[o] \ {"processedAt"} |->
        IF a = "status" THEN "NEW" ELSE table[o][a]]

\* the world in which invocation state pr began, recovered from the present
\* one: the records it set to PROCESSED were NEW, and the messages it
\* published were not on the topic
WorldBefore(pr) ==
    LET updated == {pr.Records[k].orderId : k \in
                      {j \in 1..Len(pr.outcome) :
                          pr.outcome[j] \in {"done", "publish_error"}}}
        notified == {Message(pr.Records[k].orderId) : k \in
                       {j \in 1..Len(pr.outcome) : pr.outcome[j] = "done"}}
    IN [table |-> [o \in DOMAIN table |->
                      IF o \in updated THEN BeforeUpdate(o) ELSE table[o]],
        published |-> published (-) SetToBag(notified),
        failures |-> << >>]

\* every entry of `records` concerns an order, and no two the same one
DistinctOrders(records) ==
    /\ \A k \in 1..Len(records) :
          records[k].dynamodb = "dict" /\ records[k].orderId \in Orders
    /\ \A i, j \in 1..Len(records) :
          records[i].orderId = records[j].orderId => i = j

\* C30: when the loop of an invocation is over and the entries of its event
\* concern pairwise distinct orders, every entry was handled, and the table,
\* the topic and the set of reported identifiers are the ones obtained by
\* handling the entries one by one, each as an event of its own, in any
\* order, from the world in which the invocation began and with the same
\* answers of storage and topic to each entry.
C30_PerEntryIndependence ==
    \A p \in Processors :
        LET pr == proc[p]
            n == Len(pr.Records)
        IN (Returning(p) /\ n >= 1 /\ DistinctOrders(pr.Records))
           => /\ Len(pr.outcome) = n
              /\ \A order \in Orderings(n) :
                    LET fates == [k \in 1..n |-> FateOf(pr.outcome[k])]
                        w == HandleEach(WorldBefore(pr), pr.Records, fates,
                                        pr.processed_at, order, 1)
                    IN /\ w.table = table
                       /\ w.published = published
                       /\ {w.failures[k] : k \in 1..Len(w.failures)}
                            = {pr.batch_item_failures[k] :
                                 k \in 1..Len(pr.batch_item_failures)}

\* C30 witness: an event of an entry for o1, whose publish raised, and an
\* entry for o2, transitioned and notified; both records are PROCESSED, one
\* message is on the topic and one identifier is reported.
C30_Witness ==
    /\ Returning("p1")
    /\ DistinctOrders(proc["p1"].Records)
    /\ Len(proc["p1"].Records) = 2
    /\ proc["p1"].Records[1].orderId = "o1"
    /\ proc["p1"].Records[2].eventName = "MODIFY"
    /\ proc["p1"].outcome = <<"publish_error", "done">>
    /\ proc["p1"].batch_item_failures = <<11>>
    /\ table["o1"].status = "PROCESSED"
    /\ table["o2"].status = "PROCESSED"
    /\ published = SetToBag({Message("o2")})

\* what a string body holds when it is well-formed JSON and no object
NonObject == {"array", "number", "string", "null"}

\* C31: a call whose body is a string holding well-formed JSON that is not
\* an object is answered 400 and does not go on to the write.
C31_NonObjectBodyIs400 ==
    \A c \in Creators :
        (called[c].request.body = "str" /\ called[c].request.syntax \in NonObject)
        => /\ called[c].response.statusCode = 400
           /\ create[c].pc = "idle"

\* C32: every call is checked in the order body decoding, orderId,
\* snackType: a body that is not well-formed JSON is answered with the JSON
\* error whatever its fields; otherwise an invalid orderId is answered with
\* the orderId error, also when snackType is invalid too; otherwise an
\* invalid snackType is answered with the snackType error; and a call that
\* is rejected does not go on to the write.
C32_OrderOfChecks ==
    \A c \in Creators :
        LET r == called[c].request
            a == called[c].response
        IN called[c] # NoCall =>
              /\ a = IF r.body = "str" /\ r.syntax = "malformed" THEN InvalidJson
                     ELSE IF FieldInvalid(r.orderId) THEN BadRequest("orderId")
                     ELSE IF FieldInvalid(r.snackType) THEN BadRequest("snackType")
                     ELSE NoResponse
              /\ a # NoResponse => create[c].pc = "idle"

\* the entries of orderId o on the stream that went to the dead-letter queue
DeadLettered(o) == {n \in dlq : stream[n].orderId = o}

C34_ConstructedOnce ==
    \A f \in Accessors :
        /\ handles.built[f] <= 1
        /\ Cardinality(handles.returned[f]) <= 1

====
